---- MODULE Spec2Model ----
(***************************************************************************)
(* A model of arc-metrics: the atomic primitives (IntCounter, IntGauge),   *)
(* the ownership-extension adapter (ChildMetric), the scoped helpers       *)
(* (ActiveGauge), the registration context (RegisterAction), the group     *)
(* helper (RegisterHelper) and the registry with its renderer              *)
(* (PromMetricRegistry).                                                   *)
(*                                                                         *)
(* Strings are sequences of byte values (ASCII codes), so that             *)
(* concatenation, comparison (str's Ord is bytewise lexicographic) and the *)
(* rendered text are computed, not assumed.                                *)
(***************************************************************************)
EXTENDS Integers, Sequences, FiniteSets, TLC

\* ------------------------------------------------------------------ bounds

\* Width of the atomic word in the model; the program's AtomicU64 has 64 bits.
WordBits == 3
\* Threads that operate on one primitive concurrently.
NThreads == 2
\* Operations each thread issues on the primitive.
MaxOps == 2

Modulus == 2 ^ WordBits
Threads == 1 .. NThreads
\* Amounts passed to the *_by operations: the unit, a small amount, the largest word.
Amounts == {1, 2, Modulus - 1}


\* ---- bounds of the registration models
\* Calls made over one run: register_fn, the calls of the routines it runs
\* (scope exits included) and render. MaxCalls bounds the runs that use the
\* whole registration interface, MaxFlushCalls the runs of routines that only
\* declare metrics.
MaxCalls == 7
MaxFlushCalls == 9
\* The same, for the runs in which callers drop their handles and the registry
\* is dropped.
MaxOwnerCalls == 5
\* The same, for the runs that look at the rendered sample lines.
MaxRenderCalls == 7
\* Handles and ChildMetric values callers hold on one aggregate at a time.
MaxShares == 2
\* Loads of one primitive that a run records.
MaxLoads == 2
\* Writes the threads make to the registered words beside a render.
MaxWrites == 2
\* Ticks of the clock in a run.
MaxTime == 4

\* ------------------------------------------------------------------ strings

\* Option<T>: None is the empty tuple, Some(x) the one-element tuple.
None == <<>>
Some(x) == <<x>>
IsSome(o) == o # <<>>
Unwrap(o) == o[1]

\* String literals, as bytes.
S_us == <<95>>                      \* "_"
S_a == <<97>>                       \* "a"
S_b == <<98>>                       \* "b"
S_p == <<112>>                      \* "p"
S_q == <<113>>                      \* "q"
S_s == <<115>>                      \* "s"
S_k == <<107>>                      \* "k"
S_t == <<116>>                      \* "t"
S_z == <<122>>                      \* "z"
S_1 == <<49>>                       \* "1"
S_2 == <<50>>                       \* "2"
S_9 == <<57>>                       \* "9"
S_nl == <<10>>                      \* "\n"
S_sp == <<32>>                      \* " "
S_lbrace == <<123>>                 \* "{"
S_rbrace == <<125>>                 \* "}"
S_comma == <<44>>                   \* ","
S_eqq == <<61, 34>>                 \* "=\""
S_quote == <<34>>                   \* "\""
S_help == <<35, 32, 72, 69, 76, 80, 32>>        \* "# HELP "
S_type == <<35, 32, 84, 89, 80, 69, 32>>        \* "# TYPE "
S_counter == <<99, 111, 117, 110, 116, 101, 114>>   \* "counter"
S_gauge == <<103, 97, 117, 103, 101>>               \* "gauge"

\* The inputs the registration routines draw from.
Prefixes == {S_p, S_q}              \* arguments of name_prefix
S_empty == <<>>                     \* ""
Segments == {S_s, S_empty}          \* arguments of group
CounterNames == {S_a, S_b}          \* arguments of count
GaugeNames == {S_a}                 \* arguments of gauge
BaseAttrPairs == {<<S_k, S_1>>}             \* arguments of base_attr
AttrPairs == {<<S_t, S_2>>, <<S_k, S_1>>}   \* arguments of attr
Aggs == {1, 2}                      \* the metrics aggregates (Arc<T>)

\* format!("{}_{}", a, b)
format_us(a, b) == a \o S_us \o b

SetMin(S) == CHOOSE x \in S : \A y \in S : x <= y

\* str's Ord: bytewise lexicographic, a proper prefix first.
StrLess(a, b) ==
    LET n == IF Len(a) < Len(b) THEN Len(a) ELSE Len(b)
        diff == {i \in 1 .. n : a[i] # b[i]}
    IN  IF diff = {} THEN Len(a) < Len(b)
        ELSE a[SetMin(diff)] < b[SetMin(diff)]

\* u64's Display: decimal, no padding.
RECURSIVE ToDec(_)
ToDec(n) == IF n < 10 THEN <<48 + n>> ELSE ToDec(n \div 10) \o <<48 + (n % 10)>>

\* ------------------------------------------------------- registry: data

\* enum MetricType, with the derived Ord: IntCounter < IntGauge.
MetricTypes == {"IntCounter", "IntGauge"}
\* An order of the kinds with IntGauge first.
MetricTypeOrd_reversed(ty) == IF ty = "IntCounter" THEN 1 ELSE 0

\* enum MetricType with the derived Ord: the declaration order.
MetricTypeOrd(ty) == IF ty = "IntCounter" THEN 0 ELSE 1

\* impl Display for MetricType
MetricType_fmt(ty) == IF ty = "IntCounter" THEN S_counter ELSE S_gauge

\* A &'static AtomicU64 projected from an aggregate: the aggregate that owns
\* the word, and the field (each aggregate has a counter and a gauge).
Ref(owner, field) == <<owner, field>>
Refs == Aggs \X MetricTypes

\* struct RegisteredMetric
RegisteredMetric(ty, name, val, attrs) ==
    [metric_type |-> ty, name |-> name, value |-> val, attributes |-> attrs]

\* struct SortKey with the derived Ord: by name, then by metric.
SortKeyOf(item) == [name |-> item.name, metric |-> item.metric_type]
SortKeyLess(x, y) ==
    \/ StrLess(x.name, y.name)
    \/ x.name = y.name /\ MetricTypeOrd(x.metric) < MetricTypeOrd(y.metric)
SortKeyLeq(x, y) == x = y \/ SortKeyLess(x, y)

\* An insertion in front of the elements whose key equals the item's.
InsertByKey_front(sorted, item) ==
    LET n == Cardinality({i \in 1 .. Len(sorted) :
                 SortKeyLess(SortKeyOf(sorted[i]), SortKeyOf(item))})
    IN  SubSeq(sorted, 1, n) \o <<item>> \o SubSeq(sorted, n + 1, Len(sorted))

\* slice::sort_by_key: a stable sort. Each element is inserted behind the
\* elements of the sorted front whose key is not greater than its own.
InsertByKey(sorted, item) ==
    LET n == Cardinality({i \in 1 .. Len(sorted) :
                 SortKeyLeq(SortKeyOf(sorted[i]), SortKeyOf(item))})
    IN  SubSeq(sorted, 1, n) \o <<item>> \o SubSeq(sorted, n + 1, Len(sorted))

RECURSIVE sort_by_key(_)
sort_by_key(items) ==
    IF items = <<>> THEN <<>>
    ELSE InsertByKey(sort_by_key(SubSeq(items, 1, Len(items) - 1)), items[Len(items)])

\* ------------------------------------------------ registration context

\* struct RegisterAction (its `metrics` field is the registry's list).
RegisterAction(prefix, attrs) == [name_prefix |-> prefix, base_attributes |-> attrs]

\* A child that would start from a fresh context instead of a copy.
RegisterAction_child_fresh(self) == RegisterAction(None, <<>>)

\* RegisterAction::child
RegisterAction_child(self) ==
    RegisterAction(self.name_prefix, self.base_attributes)

\* RegisterAction::name_prefix
RegisterAction_name_prefix(self, prefix) ==
    [self EXCEPT !.name_prefix = Some(prefix)]

\* A base_attr that would overwrite the value of a key the context already has.
RegisterAction_base_attr_keyed(self, key, val) ==
    IF \E i \in DOMAIN self.base_attributes : self.base_attributes[i][1] = key
    THEN [self EXCEPT !.base_attributes =
            [i \in DOMAIN @ |-> IF @[i][1] = key THEN <<key, val>> ELSE @[i]]]
    ELSE [self EXCEPT !.base_attributes = Append(@, <<key, val>>)]

\* RegisterAction::base_attr
RegisterAction_base_attr(self, key, val) ==
    [self EXCEPT !.base_attributes = Append(@, <<key, val>>)]

\* struct RegisterHelper (its `metrics` field is the registry's list).
RegisterHelper(prefix, attrs, registered) ==
    [name_prefix |-> prefix, attributes |-> attrs, registered |-> registered]

\* A start that would let the group segment replace the context's prefix.
RegisterAction_start_replacing(self, prefix) ==
    RegisterHelper(IF IsSome(prefix) THEN prefix ELSE self.name_prefix,
                   self.base_attributes, <<>>)

\* RegisterAction::start; `prefix` is an Option.
RegisterAction_start(self, prefix) ==
    LET name_prefix ==
            CASE IsSome(self.name_prefix) /\ ~IsSome(prefix) -> Some(Unwrap(self.name_prefix))
              [] ~IsSome(self.name_prefix) /\ IsSome(prefix) -> Some(Unwrap(prefix))
              [] IsSome(self.name_prefix) /\ IsSome(prefix) ->
                     Some(format_us(Unwrap(self.name_prefix), Unwrap(prefix)))
              [] OTHER -> None
    IN  RegisterHelper(name_prefix, self.base_attributes, <<>>)

\* RegisterAction::group / RegisterAction::empty
RegisterAction_group(self, prefix) == RegisterAction_start(self, Some(prefix))
RegisterAction_empty(self) == RegisterAction_start(self, None)

\* ------------------------------------------------------- group helper

\* RegisterHelper::attr
RegisterHelper_attr(self, key, val) ==
    [self EXCEPT !.attributes = Append(@, <<key, val>>)]

\* RegisterHelper::metric
RegisterHelper_metric(self, name, val, metric_type) ==
    LET full == IF IsSome(self.name_prefix)
                THEN format_us(Unwrap(self.name_prefix), name)
                ELSE name
    IN  [self EXCEPT !.registered =
            Append(@, RegisteredMetric(metric_type, full, val, <<>>))]

\* RegisterAction::metric (behind RegisterAction::count / gauge)
RegisterAction_metric(self, name, val, metric_type) ==
    RegisterHelper_metric(RegisterAction_empty(self), name, val, metric_type)

\* A flush that would move the declarations with the attributes they were
\* pushed with.
RegisterHelper_drain_unstamped(self) == self.registered

\* impl Drop for RegisterHelper, first loop: the pending declarations, each
\* stamped with the helper's attributes, in declaration order.
RegisterHelper_drain(self) ==
    [i \in 1 .. Len(self.registered) |->
        [self.registered[i] EXCEPT !.attributes = self.attributes]]

\* A flush that would append without sorting.
RegisterHelper_drop_unsorted(self, list) == list \o RegisterHelper_drain(self)

\* A flush that would replace the entries of the list that have the key of a
\* flushed declaration.
RegisterHelper_drop_replacing(self, list) ==
    LET new == RegisterHelper_drain(self)
        Kept(m) == \A i \in DOMAIN new :
                      ~(new[i].name = m.name /\ new[i].metric_type = m.metric_type)
    IN  sort_by_key(SelectSeq(list, Kept) \o new)

\* impl Drop for RegisterHelper: the registry's list after the flush.
RegisterHelper_drop(self, list) ==
    sort_by_key(list \o RegisterHelper_drain(self))

\* ------------------------------------------------------------- renderer

\* A loop body that would close the brace only after a pair that follows
\* another.
fmt_attr_unclosed(i, end, key, val) ==
    IF i = 0
    THEN S_lbrace \o key \o S_eqq \o val \o S_quote
    ELSE IF i + 1 = end
    THEN S_comma \o key \o S_eqq \o val \o S_quote \o S_rbrace
    ELSE S_comma \o key \o S_eqq \o val \o S_quote

\* impl Display for PromMetricRegistry, the body of the loop over
\* `attributes.iter().enumerate()`: what is written for the pair at index i
\* (from 0) of a list of `end` pairs.
fmt_attr(i, end, key, val) ==
    IF i = 0
    THEN S_lbrace \o key \o S_eqq \o val \o S_quote
            \o (IF end = 1 THEN S_rbrace ELSE <<>>)
    ELSE IF i + 1 = end
    THEN S_comma \o key \o S_eqq \o val \o S_quote \o S_rbrace
    ELSE S_comma \o key \o S_eqq \o val \o S_quote

RECURSIVE fmt_attrs(_, _)
\* The text written for the first n pairs of `attributes`.
fmt_attrs(attributes, n) ==
    IF n = 0 THEN <<>>
    ELSE fmt_attrs(attributes, n - 1)
            \o fmt_attr(n - 1, Len(attributes), attributes[n][1], attributes[n][2])

\* The sample line of one metric, `loaded` being the value its word holds.
fmt_sample(metric, loaded) ==
    metric.name \o fmt_attrs(metric.attributes, Len(metric.attributes))
        \o S_sp \o ToDec(loaded) \o S_nl

\* The "# HELP" and "# TYPE" lines of one metric.
fmt_header(metric) ==
    S_help \o metric.name \o S_nl
        \o S_type \o metric.name \o S_sp \o MetricType_fmt(metric.metric_type) \o S_nl

RECURSIVE fmt_from(_, _, _, _)
\* The loop of fmt from the metric at index i on: `last` is the (name, type)
\* of the most recent header written, `words` the value of every word.
fmt_from(list, words, i, last) ==
    IF i > Len(list) THEN <<>>
    ELSE LET metric == list[i]
             matches == IF IsSome(last)
                        THEN Unwrap(last)[1] = metric.name
                                /\ Unwrap(last)[2] = metric.metric_type
                        ELSE FALSE
             next == IF matches THEN last
                     ELSE Some(<<metric.name, metric.metric_type>>)
         IN  (IF matches THEN <<>> ELSE fmt_header(metric))
                \o fmt_sample(metric, words[metric.value])
                \o fmt_from(list, words, i + 1, next)

\* A renderer that would end the text with a blank line.
PromMetricRegistry_fmt_terminated(list, words) == fmt_from(list, words, 1, None) \o S_nl

\* impl Display for PromMetricRegistry
PromMetricRegistry_fmt(list, words) == fmt_from(list, words, 1, None)

VARIABLES
    \* ---- one IntCounter or IntGauge shared by the threads (lib.rs:5-9)
    kind,      \* which primitive the word belongs to: "IntCounter" or "IntGauge"
    value,     \* the AtomicU64
    done,      \* done[t]: operations thread t has completed
    \* ---- history of the primitive, for stating the claims
    v0,        \* the value before the threads started
    sumInc,    \* sum of all amounts added so far
    sumDec,    \* sum of all amounts subtracted so far
    \* ---- struct PromMetricRegistry
    metric_holders,   \* Vec<Arc<dyn Any>>: the aggregates whose Arc it holds
    metrics,          \* Vec<RegisteredMetric>
    base_attributes,  \* Vec<[Cow<str>; 2]>
    \* ---- a registration in progress
    ctx,       \* the live RegisterAction values, the root first; <<>> when none
    helper,    \* the live RegisterHelper (an Option)
    cur,       \* the aggregate handed to the running routine (an Option)
    \* ---- the aggregates
    strong,    \* strong[a]: the strong count of aggregate a's Arc
    alive,     \* alive[a]: aggregate a has not been deallocated
    handles,   \* handles[a]: the Arc handles to a that callers hold
    children,  \* children[a]: the live ChildMetric values projected from a
    guard,     \* guard[t]: where thread t is with its ActiveGauge
    registry_live,   \* the registry has not been dropped
    words,     \* words[r]: the value of the AtomicU64 behind reference r
    \* ---- the text of the latest render (an Option)
    output,
    \* ---- history of the registration, for stating the claims
    g_log,     \* every metric committed so far, in commit order
    g_shown,   \* g_log at the latest render
    g_ctx,     \* per live context: the name_prefix arguments along its ancestry,
               \* the base_attr arguments along its ancestry,
               \* its parent when it was spawned, whether it was narrowed since
    g_back,    \* set when a child has just finished: its parent at the spawn
    g_open,    \* the live helper's history: how it was opened, what was called
    g_last,    \* the same, of the latest helper that was flushed
    calls,     \* calls made so far
    budget,    \* calls the run may make
    \* ---- history of the loads, for stating the claims
    g_loads,   \* the values loaded from the primitive so far, in order
    g_decls,   \* declarations made in the helpers flushed so far
    \* ---- a render that runs while threads update the metrics
    rendering, \* the running fmt (an Option): the index of the next metric, the
               \* last header, the text written and the values loaded so far
    g_vals,    \* the values the latest fmt loaded, one per metric, in list order
    g_held,    \* g_held[r]: the values word r has held since the latest fmt began
    g_word,    \* g_word[r]: the value the latest write to word r stored
    g_snap,    \* the registry's lists when the latest fmt began
    writes,    \* writes the threads have made to registered words
    \* ---- duration timers
    now,       \* the monotonic clock, in ticks
    timer,     \* timer[t]: where thread t is with its DurationIncMs / DurationIncUs
    g_start,   \* g_start[t]: the clock when thread t's timer was constructed, its
               \* unit, and the clock when its scope exited
    g_sum,     \* g_sum[a]: the whole units between construction and exit of the
               \* timers on aggregate a's counter that have exited, summed
    \* ---- history of the writes to the words, for stating the claims
    g_net,     \* g_net[r]: the value last set on word r (0 when never set), plus
               \* the amounts added and minus the amounts subtracted by inc_by and
               \* dec_by since, as an integer
    g_at       \* g_at[r]: the guards that were open on word r when it was last set

\* The history that the steps on the primitives and on the registry leave alone.
timerVars == <<now, timer, g_start, g_sum>>

gaugeObs == <<g_net, g_at>>

obsVars == <<g_loads, g_decls, rendering, g_vals, g_held, g_word, g_snap, writes,
             timerVars, gaugeObs>>

atomCore == <<kind, value, done, v0, sumInc, sumDec>>

atomVars == <<atomCore, obsVars>>

arcVars == <<alive, handles, children, guard, registry_live>>

regVars == <<arcVars, metric_holders, metrics, base_attributes, ctx, helper, cur,
             strong, words, output, g_log, g_shown, g_ctx, g_back, g_open, g_last,
             calls, budget>>

vars == <<atomVars, regVars>>

\* ------------------------------------------------------- atomic primitives

\* An addition that would store the amount instead of adding it.
fetch_add_storing(v, amount) == amount % Modulus

\* An addition that would saturate at the largest value instead of wrapping.
fetch_add_saturating(v, amount) ==
    IF v + amount >= Modulus THEN Modulus - 1 ELSE v + amount

\* A subtraction that would stop at zero instead of wrapping.
fetch_sub_saturating(v, amount) == IF v < amount THEN 0 ELSE v - amount

\* AtomicU64::fetch_add / fetch_sub: one indivisible read-modify-write that
\* wraps on overflow. The ordering argument (Relaxed for the owned tier,
\* AcqRel for the shared tier) does not change the atomicity of the
\* read-modify-write on the one word, so both tiers are the same step here.
fetch_add(v, amount) == (v + amount) % Modulus
fetch_sub(v, amount) == (v - amount) % Modulus

\* Thread t completes an operation that added `amount`.
AddStep(t, amount) ==
    /\ done[t] < MaxOps
    /\ value' = fetch_add(value, amount)
    /\ done' = [done EXCEPT ![t] = @ + 1]
    /\ sumInc' = sumInc + amount
    /\ UNCHANGED <<kind, v0, sumDec, obsVars, regVars>>

\* Thread t completes an operation that subtracted `amount`.
SubStep(t, amount) ==
    /\ done[t] < MaxOps
    /\ value' = fetch_sub(value, amount)
    /\ done' = [done EXCEPT ![t] = @ + 1]
    /\ sumDec' = sumDec + amount
    /\ UNCHANGED <<kind, v0, sumInc, obsVars, regVars>>

\* AtomicU64::load, as the renderer reads a value: the value is recorded.
AtomicU64_load ==
    /\ Len(g_loads) < MaxLoads
    /\ g_loads' = Append(g_loads, value)
    /\ UNCHANGED <<atomCore, g_decls, rendering, g_vals, g_held, g_word, g_snap, writes,
                   timerVars, gaugeObs, regVars>>

\* impl IntCounter
IntCounter_owned_inc_by(t, amount) == kind = "IntCounter" /\ AddStep(t, amount)
IntCounter_shared_inc_by(t, amount) == kind = "IntCounter" /\ AddStep(t, amount)
IntCounter_owned_inc(t) == IntCounter_owned_inc_by(t, 1)
IntCounter_shared_inc(t) == IntCounter_shared_inc_by(t, 1)
IntCounter_inc(t) == IntCounter_shared_inc(t)
IntCounter_inc_by(t, amount) == IntCounter_shared_inc_by(t, amount)

\* impl IntGauge
IntGauge_owned_dec_by(t, amount) == kind = "IntGauge" /\ SubStep(t, amount)
IntGauge_shared_dec_by(t, amount) == kind = "IntGauge" /\ SubStep(t, amount)
IntGauge_owned_dec(t) == IntGauge_owned_dec_by(t, 1)
IntGauge_shared_dec(t) == IntGauge_shared_dec_by(t, 1)
IntGauge_dec(t) == IntGauge_shared_dec(t)
IntGauge_owned_inc_by(t, amount) == kind = "IntGauge" /\ AddStep(t, amount)
IntGauge_shared_inc_by(t, amount) == kind = "IntGauge" /\ AddStep(t, amount)
IntGauge_shared_inc(t) == IntGauge_shared_inc_by(t, 1)
IntGauge_inc(t) == IntGauge_shared_inc(t)

\* --------------------------------------------------------------- Arc

\* Arc::clone / Drop for Arc, on the strong counts.
Arc_clone(counts, a) == [counts EXCEPT ![a] = @ + 1]
Arc_drop(counts, a) == [counts EXCEPT ![a] = @ - 1]

\* The aggregates that are still allocated once the counts are `counts`: Drop
\* for Arc deallocates the aggregate when it releases the last share.
Allocated(counts) == [a \in Aggs |-> alive[a] /\ counts[a] > 0]

\* A clone, or a registration, that would copy the reference without taking a
\* share.
ChildMetric_clone_unshared(counts, a) == counts
register_fn_unshared(counts, a) == counts

\* ChildMetric::create: `arc.clone()`, kept in the new value beside the
\* projected reference.
ChildMetric_create(counts, a) == Arc_clone(counts, a)

\* impl Clone for ChildMetric: `self.arc.clone()`.
ChildMetric_clone(counts, a) == Arc_clone(counts, a)

\* Dropping a ChildMetric drops its `arc` field.
ChildMetric_drop(counts, a) == Arc_drop(counts, a)

\* PromMetricRegistry::register_fn: `Arc::clone(metrics)`, pushed on
\* metric_holders.
register_fn_share(counts, a) == Arc_clone(counts, a)

\* ------------------------------------------------- registration: steps

Top(stack) == stack[Len(stack)]
SetTop(stack, x) == [stack EXCEPT ![Len(stack)] = x]
Pop(stack) == SubSeq(stack, 1, Len(stack) - 1)

\* One more call of the run.
Call == calls < budget /\ calls' = calls + 1 /\ UNCHANGED budget

\* The routine may call the context: one is live and no helper borrows it.
CtxFree == ctx # <<>> /\ ~IsSome(helper)

\* What a step that only moves the contexts leaves alone.
ContextFrame ==
    UNCHANGED <<atomVars, arcVars, metric_holders, metrics, base_attributes, helper, cur,
                strong, words, output, g_shown, g_log, g_open, g_last>>

\* What a step that only moves the helper leaves alone.
HelperFrame ==
    UNCHANGED <<atomVars, arcVars, metric_holders, metrics, base_attributes, ctx, cur,
                strong, words, output, g_shown, g_log, g_ctx, g_back, g_last>>

\* A root context that would start without the registry's attributes.
register_fn_action_bare(base) == RegisterAction(None, <<>>)

\* PromMetricRegistry::register_fn, `let mut action = RegisterAction { .. }`:
\* no prefix, a clone of the registry's base attributes.
register_fn_action(base) == RegisterAction(None, base)

\* PromMetricRegistry::register_fn, up to the call of the routine: the
\* registry clones the caller's Arc and builds the root context.
\* (PromMetricRegistry::register is register_fn with the routine
\* `m.register(reg)`.)
register_fn(a) ==
    /\ Call
    /\ registry_live
    /\ ctx = <<>>
    /\ handles[a] >= 1
    /\ metric_holders' = Append(metric_holders, a)
    /\ strong' = register_fn_share(strong, a)
    /\ ctx' = <<register_fn_action(base_attributes)>>
    /\ cur' = Some(a)
    /\ g_ctx' = <<[chain |-> <<>>, battrs |-> <<>>, parent |-> None, touched |-> FALSE]>>
    /\ g_back' = None
    /\ UNCHANGED <<atomVars, arcVars, metrics, base_attributes, helper, words,
                   output, g_shown, g_log, g_open, g_last>>

\* The routine returns to register_fn, which drops the root context.
register_fn_return ==
    /\ Call
    /\ Len(ctx) = 1
    /\ ~IsSome(helper)
    /\ ctx' = <<>>
    /\ cur' = None
    /\ g_ctx' = <<>>
    /\ g_back' = None
    /\ UNCHANGED <<atomVars, arcVars, metric_holders, metrics, base_attributes,
                   helper, strong, words, output, g_shown, g_log, g_open, g_last>>

\* reg.child(): a new context that borrows its parent until it is dropped.
child ==
    /\ Call
    /\ CtxFree
    /\ ctx' = Append(ctx, RegisterAction_child(Top(ctx)))
    /\ g_ctx' = Append(g_ctx, [chain |-> Top(g_ctx).chain,
                               battrs |-> Top(g_ctx).battrs,
                               parent |-> Some(Top(ctx)), touched |-> FALSE])
    /\ g_back' = None
    /\ ContextFrame

\* The child context goes out of scope.
child_drop ==
    /\ Call
    /\ CtxFree
    /\ Len(ctx) >= 2
    /\ ctx' = Pop(ctx)
    /\ g_ctx' = Pop(g_ctx)
    /\ g_back' = Some([state |-> Unwrap(Top(g_ctx).parent),
                       narrowed |-> Top(g_ctx).touched])
    /\ ContextFrame

\* reg.name_prefix(prefix)
name_prefix(prefix) ==
    /\ Call
    /\ CtxFree
    /\ ctx' = SetTop(ctx, RegisterAction_name_prefix(Top(ctx), prefix))
    /\ g_ctx' = SetTop(g_ctx, [Top(g_ctx) EXCEPT !.chain = Append(@, prefix),
                                                 !.touched = TRUE])
    /\ g_back' = None
    /\ ContextFrame

\* reg.base_attr(key, value)
base_attr(key, val) ==
    /\ Call
    /\ CtxFree
    /\ ctx' = SetTop(ctx, RegisterAction_base_attr(Top(ctx), key, val))
    /\ g_ctx' = SetTop(g_ctx, [Top(g_ctx) EXCEPT !.battrs = Append(@, <<key, val>>),
                                                 !.touched = TRUE])
    /\ g_back' = None
    /\ ContextFrame

\* History of a helper at the moment it is opened with segment `seg` (an Option).
Opened(seg) ==
    [prefix |-> Top(ctx).name_prefix, seg |-> seg, chain |-> Top(g_ctx).chain,
     battrs |-> Top(g_ctx).battrs,
     inherited |-> Top(ctx).base_attributes, added |-> <<>>, decls |-> <<>>]

\* History of one declaration: its arguments, and how many attr calls preceded it.
Decl(h, name, val, metric_type) ==
    [h EXCEPT !.decls = Append(@, [name |-> name, value |-> val,
                                   metric_type |-> metric_type,
                                   seen |-> Len(h.added)])]

\* reg.group(prefix)
group(prefix) ==
    /\ Call
    /\ CtxFree
    /\ helper' = Some(RegisterAction_group(Top(ctx), prefix))
    /\ g_open' = Some(Opened(Some(prefix)))
    /\ HelperFrame

\* reg.empty()
empty ==
    /\ Call
    /\ CtxFree
    /\ helper' = Some(RegisterAction_empty(Top(ctx)))
    /\ g_open' = Some(Opened(None))
    /\ HelperFrame

\* reg.count(name, &m.counter) / reg.gauge(name, &m.gauge): RegisterAction::metric
RegisterAction_declare(name, metric_type) ==
    /\ Call
    /\ CtxFree
    /\ LET val == Ref(Unwrap(cur), metric_type)
       IN  /\ helper' = Some(RegisterAction_metric(Top(ctx), name, val, metric_type))
           /\ g_open' = Some(Decl(Opened(None), name, val, metric_type))
    /\ HelperFrame

RegisterAction_count(name) == RegisterAction_declare(name, "IntCounter")
RegisterAction_gauge(name) == RegisterAction_declare(name, "IntGauge")

\* helper.attr(key, value)
attr(key, val) ==
    /\ Call
    /\ IsSome(helper)
    /\ helper' = Some(RegisterHelper_attr(Unwrap(helper), key, val))
    /\ g_open' = Some([Unwrap(g_open) EXCEPT !.added = Append(@, <<key, val>>)])
    /\ HelperFrame

\* helper.count(name, &m.counter) / helper.gauge(name, &m.gauge): RegisterHelper::metric
RegisterHelper_declare(name, metric_type) ==
    /\ Call
    /\ IsSome(helper)
    /\ LET val == Ref(Unwrap(cur), metric_type)
       IN  /\ helper' = Some(RegisterHelper_metric(Unwrap(helper), name, val, metric_type))
           /\ g_open' = Some(Decl(Unwrap(g_open), name, val, metric_type))
    /\ HelperFrame

RegisterHelper_count(name) == RegisterHelper_declare(name, "IntCounter")
RegisterHelper_gauge(name) == RegisterHelper_declare(name, "IntGauge")

\* The helper goes out of scope: impl Drop for RegisterHelper.
helper_drop ==
    /\ Call
    /\ IsSome(helper)
    /\ metrics' = RegisterHelper_drop(Unwrap(helper), metrics)
    /\ helper' = None
    /\ g_log' = g_log \o RegisterHelper_drain(Unwrap(helper))
    /\ g_last' = g_open
    /\ g_open' = None
    /\ g_decls' = g_decls + Len(Unwrap(g_open).decls)
    /\ UNCHANGED <<atomCore, g_loads, rendering, g_vals, g_held, g_word, g_snap, writes,
                   timerVars, gaugeObs,
                   arcVars, metric_holders, base_attributes, ctx, cur,
                   strong, words, output, g_shown, g_ctx, g_back>>

\* The values a render may load: the word's value while its aggregate is
\* allocated; any value once the aggregate has been deallocated (a read
\* through a dangling reference).
Loads ==
    LET dead == {r \in Refs : ~alive[r[1]] /\ \E i \in DOMAIN metrics : metrics[i].value = r}
    IN  {[r \in Refs |-> IF r \in dead THEN g[r] ELSE words[r]] :
            g \in [dead -> 0 .. Modulus - 1]}

\* format!("{}", registry): needs &registry, so no registration is running.
render ==
    /\ Call
    /\ registry_live
    /\ ctx = <<>>
    /\ \E loaded \in Loads : output' = Some(PromMetricRegistry_fmt(metrics, loaded))
    /\ g_shown' = g_log
    /\ UNCHANGED <<atomVars, arcVars, metric_holders, metrics, base_attributes,
                   ctx, helper, cur, strong, words, g_log, g_ctx, g_back, g_open,
                   g_last>>

\* ------------------------------------- render beside running threads

\* What a step of the threads or of fmt leaves alone.
ConcurrentFrame ==
    UNCHANGED <<atomCore, g_loads, g_decls, timerVars, arcVars,
                metric_holders, metrics, base_attributes, ctx, helper, cur, strong,
                g_log, g_ctx, g_back, g_open, g_last, budget>>

\* The words that metrics of the list read.
RegisteredRefs == {metrics[i].value : i \in DOMAIN metrics}

\* A thread writes `after` to the registered word r, reached through a handle
\* of its aggregate.
Write(r, after) ==
    /\ writes < MaxWrites
    /\ r \in RegisteredRefs
    /\ handles[r[1]] >= 1
    /\ writes' = writes + 1
    /\ words' = [words EXCEPT ![r] = after]
    /\ g_word' = [g_word EXCEPT ![r] = after]
    /\ g_held' = [g_held EXCEPT ![r] = IF IsSome(rendering) THEN @ \cup {after} ELSE @]
    /\ UNCHANGED <<rendering, g_vals, g_snap, output, g_shown, calls>>
    /\ ConcurrentFrame

\* m.counter.inc_by(n) / m.gauge.shared_inc_by(n) on the word r
word_inc_by(r, amount) ==
    /\ amount \in 0 .. Modulus - 1
    /\ Write(r, fetch_add(words[r], amount))
    /\ g_net' = [g_net EXCEPT ![r] = @ + amount]
    /\ UNCHANGED g_at

\* m.gauge.shared_dec_by(n) on aggregate a
word_dec_by(a, amount) ==
    /\ amount \in 0 .. Modulus - 1
    /\ Write(Ref(a, "IntGauge"), fetch_sub(words[Ref(a, "IntGauge")], amount))
    /\ g_net' = [g_net EXCEPT ![Ref(a, "IntGauge")] = @ - amount]
    /\ UNCHANGED g_at

\* IntGauge::set
IntGauge_set(a, v) ==
    /\ v \in 0 .. Modulus - 1
    /\ Write(Ref(a, "IntGauge"), v)
    /\ g_net' = [g_net EXCEPT ![Ref(a, "IntGauge")] = v]
    /\ g_at' = [g_at EXCEPT ![Ref(a, "IntGauge")] =
                   Cardinality({t \in Threads : guard[t] = <<"open", a>>})]

\* A load that would take the value out of the word.
load_leaves_zero(v) == 0

\* AtomicU64::load: the value it leaves in the word.
load_leaves(v) == v

\* impl Display for PromMetricRegistry: `let mut last = None`, with the
\* registry borrowed for the whole of fmt.
fmt_begin ==
    /\ Call
    /\ registry_live
    /\ ctx = <<>>
    /\ ~IsSome(rendering)
    /\ rendering' = Some([i |-> 1, last |-> None, text |-> <<>>])
    /\ g_vals' = <<>>
    /\ g_held' = [r \in Refs |-> {words[r]}]
    /\ g_snap' = Some(<<metrics, metric_holders, base_attributes>>)
    /\ UNCHANGED <<writes, words, g_word, output, g_shown, gaugeObs>>
    /\ ConcurrentFrame

\* One turn of the loop of fmt: the header when (name, type) differs from the
\* last one written, then the sample with the value loaded now.
fmt_step ==
    /\ IsSome(rendering)
    /\ Unwrap(rendering).i <= Len(metrics)
    /\ LET r == Unwrap(rendering)
           metric == metrics[r.i]
           loaded == words[metric.value]
           matches == IF IsSome(r.last)
                      THEN Unwrap(r.last)[1] = metric.name
                              /\ Unwrap(r.last)[2] = metric.metric_type
                      ELSE FALSE
       IN  /\ rendering' = Some([i |-> r.i + 1,
                                 last |-> IF matches THEN r.last
                                          ELSE Some(<<metric.name, metric.metric_type>>),
                                 text |-> r.text
                                            \o (IF matches THEN <<>> ELSE fmt_header(metric))
                                            \o fmt_sample(metric, loaded)])
           /\ g_vals' = Append(g_vals, loaded)
           /\ words' = [words EXCEPT ![metric.value] = load_leaves(@)]
    /\ UNCHANGED <<writes, g_held, g_word, g_snap, output, g_shown, calls, gaugeObs>>
    /\ ConcurrentFrame

\* The loop of fmt is over: Ok(()).
fmt_end ==
    /\ IsSome(rendering)
    /\ Unwrap(rendering).i > Len(metrics)
    /\ rendering' = None
    /\ output' = Some(Unwrap(rendering).text)
    /\ g_shown' = g_log
    /\ UNCHANGED <<writes, words, g_vals, g_held, g_word, g_snap, calls, gaugeObs>>
    /\ ConcurrentFrame

\* ------------------------------------------------------ duration timers

\* Ticks of the clock in one microsecond and in one millisecond (the scale of
\* the clock is reduced: a microsecond is UsTicks ticks, a millisecond
\* MsTicks).
UsTicks == 2
MsTicks == 3
Units == {UsTicks, MsTicks}

\* A conversion that would hand the ticks out as units.
Duration_as_units_raw(d, unit) == d

\* Duration::as_millis / Duration::as_micros: whole units, the rest dropped.
Duration_as_units(d, unit) == d \div unit

\* `as u64` on the u128 that as_millis / as_micros return.
as_u64(x) == x % Modulus

\* The whole units in d ticks: the largest k with k units within d.
Whole(d, unit) == CHOOSE k \in 0 .. d : k * unit <= d /\ d < (k + 1) * unit

\* What a step of a timer leaves alone.
TimerFrame ==
    UNCHANGED <<atomCore, g_loads, g_decls, rendering, g_vals, g_held, g_word, g_snap,
                writes, gaugeObs, handles, children, guard, registry_live, metric_holders,
                metrics, base_attributes, ctx, helper, cur, output, g_log, g_shown,
                g_ctx, g_back, g_open, g_last, calls, budget>>

\* Time passes.
tick ==
    /\ now < MaxTime
    /\ now' = now + 1
    /\ UNCHANGED <<timer, g_start, g_sum, strong, alive, words>>
    /\ TimerFrame

\* DurationIncMs::new / DurationIncUs::new: Instant::now() and
\* ChildMetric::create on the caller's handle.
DurationInc_new(t, a, unit) ==
    /\ timer[t] = <<"none">>
    /\ handles[a] >= 1
    /\ timer' = [timer EXCEPT ![t] = <<"running", a, unit, now>>]
    /\ g_start' = [g_start EXCEPT ![t] = <<now, unit>>]
    /\ strong' = ChildMetric_create(strong, a)
    /\ alive' = Allocated(strong')
    /\ UNCHANGED <<now, g_sum, words>>
    /\ TimerFrame

\* The scope of thread t's timer exits, by return or by unwinding: Drop runs,
\* `let elapsed = self.start.elapsed().as_millis() as u64` (as_micros for Us).
DurationInc_drop(t, path) ==
    /\ timer[t][1] = "running"
    /\ path \in {"return", "unwind"}
    /\ LET a == timer[t][2]
           unit == timer[t][3]
           elapsed == as_u64(Duration_as_units(now - timer[t][4], unit))
       IN  timer' = [timer EXCEPT ![t] = <<"dropping", a, elapsed>>]
    /\ g_start' = [g_start EXCEPT ![t] = Append(@, now)]
    /\ UNCHANGED <<now, g_sum, strong, alive, words>>
    /\ TimerFrame

\* Drop, second statement: self.count.shared_inc_by(elapsed); then the
\* timer's ChildMetric is dropped.
DurationInc_drop_inc(t) ==
    /\ timer[t][1] = "dropping"
    /\ LET a == timer[t][2]
           r == Ref(a, "IntCounter")
       IN  /\ words' = [words EXCEPT ![r] = fetch_add(@, timer[t][3])]
           /\ strong' = ChildMetric_drop(strong, a)
           /\ alive' = Allocated(strong')
    /\ timer' = [timer EXCEPT ![t] = <<"none">>]
    /\ g_sum' = [g_sum EXCEPT ![timer[t][2]] =
                    @ + Whole(g_start[t][3] - g_start[t][1], g_start[t][2])]
    /\ g_start' = [g_start EXCEPT ![t] = <<>>]
    /\ UNCHANGED now
    /\ TimerFrame

\* ------------------------------------------------ ownership: steps

\* What a step on the Arc shares and the gauges leaves alone.
ShareFrame ==
    UNCHANGED <<atomVars, metric_holders, metrics, base_attributes, ctx, helper,
                cur, output, g_log, g_shown, g_ctx, g_back, g_open, g_last,
                calls, budget, registry_live>>

\* Shares callers hold on aggregate a.
Shares(a) == handles[a] + children[a]

\* A caller clones its handle: Arc::clone.
clone_handle(a) ==
    /\ handles[a] >= 1
    /\ Shares(a) < MaxShares
    /\ handles' = [handles EXCEPT ![a] = @ + 1]
    /\ strong' = Arc_clone(strong, a)
    /\ alive' = Allocated(strong')
    /\ UNCHANGED <<children, guard, words>>
    /\ ShareFrame

\* A caller drops a handle: Drop for Arc.
drop_handle(a) ==
    /\ handles[a] >= 1
    /\ handles' = [handles EXCEPT ![a] = @ - 1]
    /\ strong' = Arc_drop(strong, a)
    /\ alive' = Allocated(strong')
    /\ UNCHANGED <<children, guard, words>>
    /\ ShareFrame

\* ChildMetric::create(&arc, get)
create(a) ==
    /\ handles[a] >= 1
    /\ Shares(a) < MaxShares
    /\ children' = [children EXCEPT ![a] = @ + 1]
    /\ strong' = ChildMetric_create(strong, a)
    /\ alive' = Allocated(strong')
    /\ UNCHANGED <<handles, guard, words>>
    /\ ShareFrame

\* child.clone()
clone(a) ==
    /\ children[a] >= 1
    /\ Shares(a) < MaxShares
    /\ children' = [children EXCEPT ![a] = @ + 1]
    /\ strong' = ChildMetric_clone(strong, a)
    /\ alive' = Allocated(strong')
    /\ UNCHANGED <<handles, guard, words>>
    /\ ShareFrame

\* A ChildMetric goes out of scope.
drop_child(a) ==
    /\ children[a] >= 1
    /\ children' = [children EXCEPT ![a] = @ - 1]
    /\ strong' = ChildMetric_drop(strong, a)
    /\ alive' = Allocated(strong')
    /\ UNCHANGED <<handles, guard, words>>
    /\ ShareFrame

\* The gauge of aggregate a after an operation f through a ChildMetric: f of
\* its value while a is allocated; any value once a has been deallocated (a
\* write through a dangling reference).
ThroughChild(a, after) ==
    IF alive[a]
    THEN words' = [words EXCEPT ![Ref(a, "IntGauge")] = after]
    ELSE \E v \in 0 .. Modulus - 1 : words' = [words EXCEPT ![Ref(a, "IntGauge")] = v]

\* A guard whose drop would not decrement.
ActiveGauge_drop_forgotten(v) == v

\* ActiveGauge::new: `metric.inc()`, and Drop for ActiveGauge: `self.0.dec()`,
\* on the value of the gauge (IntGauge::inc and IntGauge::dec are the
\* shared-tier fetch_add and fetch_sub of 1).
ActiveGauge_new_inc(v) == fetch_add(v, 1)
ActiveGauge_drop_dec(v) == fetch_sub(v, 1)

\* ActiveGauge::new, first statement: ChildMetric::create(metrics, get).
ActiveGauge_new_create(t, a) ==
    /\ guard[t] = <<"none">>
    /\ handles[a] >= 1
    /\ guard' = [guard EXCEPT ![t] = <<"created", a>>]
    /\ strong' = ChildMetric_create(strong, a)
    /\ alive' = Allocated(strong')
    /\ UNCHANGED <<handles, children, words>>
    /\ ShareFrame

\* ActiveGauge::new, second statement: metric.inc(); the guard is returned.
ActiveGauge_new_return(t) ==
    /\ guard[t][1] = "created"
    /\ guard' = [guard EXCEPT ![t] = <<"open", guard[t][2]>>]
    /\ ThroughChild(guard[t][2], ActiveGauge_new_inc(words[Ref(guard[t][2], "IntGauge")]))
    /\ UNCHANGED <<handles, children, strong, alive>>
    /\ ShareFrame

\* Drop for ActiveGauge: self.0.dec().
ActiveGauge_drop(t) ==
    /\ guard[t][1] = "open"
    /\ guard' = [guard EXCEPT ![t] = <<"dropping", guard[t][2]>>]
    /\ ThroughChild(guard[t][2], ActiveGauge_drop_dec(words[Ref(guard[t][2], "IntGauge")]))
    /\ UNCHANGED <<handles, children, strong, alive>>
    /\ ShareFrame

\* After Drop for ActiveGauge, its ChildMetric field is dropped.
ActiveGauge_drop_field(t) ==
    /\ guard[t][1] = "dropping"
    /\ guard' = [guard EXCEPT ![t] = <<"none">>]
    /\ strong' = ChildMetric_drop(strong, guard[t][2])
    /\ alive' = Allocated(strong')
    /\ UNCHANGED <<handles, children, words>>
    /\ ShareFrame

RECURSIVE DropAll(_, _)
\* The strong counts after every Arc of `holders` has been dropped.
DropAll(counts, holders) ==
    IF holders = <<>> THEN counts
    ELSE DropAll(Arc_drop(counts, holders[1]), Tail(holders))

\* The registry goes out of scope: its fields are dropped, metric_holders
\* among them.
registry_drop ==
    /\ registry_live
    /\ ctx = <<>>
    /\ registry_live' = FALSE
    /\ strong' = DropAll(strong, metric_holders)
    /\ alive' = Allocated(strong')
    /\ metric_holders' = <<>>
    /\ metrics' = <<>>
    /\ UNCHANGED <<atomVars, base_attributes, ctx, helper, cur, words, output,
                   g_log, g_shown, g_ctx, g_back, g_open, g_last, calls, budget,
                   handles, children, guard>>

\* pkg_details::try_get() in Default: either no details, or a package name
\* and version.
S_program == <<112, 114, 111, 103, 114, 97, 109>>                       \* "program"
S_pkg_version == <<112, 107, 103, 95, 118, 101, 114, 115, 105, 111, 110>>   \* "pkg_version"
PromMetricRegistry_default_attributes ==
    {<<>>, << <<S_program, S_z>>, <<S_pkg_version, S_9>> >>}

\* The registry after PromMetricRegistry::new, the aggregates after
\* Arc::new(T::default()), each held by its creator.
\* The clock at its origin, no timer running.
InitTimers ==
    /\ now = 0
    /\ timer = [t \in Threads |-> <<"none">>]
    /\ g_start = [t \in Threads |-> <<>>]
    /\ g_sum = [a \in Aggs |-> 0]

\* Nothing has been observed yet.
InitObs ==
    /\ g_loads = <<>>
    /\ g_decls = 0
    /\ rendering = None
    /\ g_vals = <<>>
    /\ g_held = [r \in Refs |-> {}]
    /\ g_word = [r \in Refs |-> 0]
    /\ g_snap = None
    /\ writes = 0
    /\ InitTimers
    /\ g_net = [r \in Refs |-> 0]
    /\ g_at = [r \in Refs |-> 0]

InitRegistry ==
    /\ metric_holders = <<>>
    /\ metrics = <<>>
    /\ base_attributes \in PromMetricRegistry_default_attributes
    /\ ctx = <<>>
    /\ helper = None
    /\ cur = None
    /\ strong = [a \in Aggs |-> 1]
    /\ alive = [a \in Aggs |-> TRUE]
    /\ handles = [a \in Aggs |-> 1]
    /\ children = [a \in Aggs |-> 0]
    /\ guard = [t \in Threads |-> <<"none">>]
    /\ registry_live = TRUE
    /\ output = None
    /\ g_log = <<>>
    /\ g_shown = <<>>
    /\ g_ctx = <<>>
    /\ g_back = None
    /\ g_open = None
    /\ g_last = None
    /\ calls = 0
    /\ InitObs
    /\ budget \in {MaxCalls, MaxFlushCalls, MaxOwnerCalls, MaxRenderCalls}

\* Every counter and gauge of every aggregate starts at zero.
InitWords == words = [r \in Refs |-> 0]

\* The primitive when the model is about the registry: a counter at zero.
InitAtomicIdle ==
    /\ kind = "IntCounter"
    /\ v0 = 0
    /\ value = 0
    /\ done = [t \in Threads |-> 0]
    /\ sumInc = 0
    /\ sumDec = 0

\* Runs of routines that use the whole registration interface.
Init == InitAtomicIdle /\ InitRegistry /\ InitWords /\ budget = MaxCalls

Next ==
    \/ \E a \in Aggs : register_fn(a)
    \/ register_fn_return
    \/ child
    \/ child_drop
    \/ \E p \in Prefixes : name_prefix(p)
    \/ \E kv \in BaseAttrPairs : base_attr(kv[1], kv[2])
    \/ \E s \in Segments : group(s)
    \/ empty
    \/ \E n \in CounterNames : RegisterAction_count(n)
    \/ \E n \in GaugeNames : RegisterAction_gauge(n)
    \/ \E kv \in AttrPairs : attr(kv[1], kv[2])
    \/ \E n \in CounterNames : RegisterHelper_count(n)
    \/ \E n \in GaugeNames : RegisterHelper_gauge(n)
    \/ helper_drop
    \/ render

Spec == Init /\ [][Next]_vars

\* Runs of routines that only declare metrics, in one or several helpers, over
\* one or several registrations.
InitFlush == InitAtomicIdle /\ InitRegistry /\ InitWords /\ budget = MaxFlushCalls

NextFlush ==
    \/ \E a \in Aggs : register_fn(a)
    \/ register_fn_return
    \/ \E n \in CounterNames : RegisterAction_count(n)
    \/ \E n \in GaugeNames : RegisterAction_gauge(n)
    \/ \E n \in CounterNames : RegisterHelper_count(n)
    \/ \E n \in GaugeNames : RegisterHelper_gauge(n)
    \/ helper_drop
    \/ render

SpecFlush == InitFlush /\ [][NextFlush]_vars

\* The primitive before the threads start: a counter or a gauge, at zero
\* (Default), at a small value or at the largest word (reached by earlier
\* inc_by / set calls).
InitAtomic ==
    /\ InitRegistry
    /\ InitWords
    /\ base_attributes = <<>>
    /\ budget = MaxCalls
    /\ kind \in {"IntCounter", "IntGauge"}
    /\ v0 \in {0, 1, Modulus - 1}
    /\ value = v0
    /\ done = [t \in Threads |-> 0]
    /\ sumInc = 0
    /\ sumDec = 0

NextAtomic ==
    \E t \in Threads :
        \/ IntCounter_owned_inc(t)
        \/ IntCounter_inc(t)
        \/ IntCounter_shared_inc(t)
        \/ \E n \in Amounts : IntCounter_inc_by(t, n)
        \/ \E n \in Amounts : IntCounter_owned_inc_by(t, n)
        \/ \E n \in Amounts : IntCounter_shared_inc_by(t, n)
        \/ IntGauge_owned_dec(t)
        \/ IntGauge_dec(t)
        \/ IntGauge_shared_dec(t)
        \/ \E n \in Amounts : IntGauge_owned_dec_by(t, n)
        \/ \E n \in Amounts : IntGauge_shared_dec_by(t, n)
        \/ IntGauge_inc(t)
        \/ IntGauge_shared_inc(t)
        \/ \E n \in Amounts : IntGauge_owned_inc_by(t, n)
        \/ \E n \in Amounts : IntGauge_shared_inc_by(t, n)


SpecAtomic == InitAtomic /\ [][NextAtomic]_vars

\* Runs of threads that create, clone and drop handles, ChildMetric values
\* and ActiveGauge guards.
InitShares == InitAtomicIdle /\ InitRegistry /\ InitWords /\ base_attributes = <<>> /\ budget = MaxCalls

NextShares ==
    \/ \E a \in Aggs : clone_handle(a)
    \/ \E a \in Aggs : drop_handle(a)
    \/ \E a \in Aggs : create(a)
    \/ \E a \in Aggs : clone(a)
    \/ \E a \in Aggs : drop_child(a)
    \/ \E t \in Threads, a \in Aggs : ActiveGauge_new_create(t, a)
    \/ \E t \in Threads : ActiveGauge_new_return(t)
    \/ \E t \in Threads : ActiveGauge_drop(t)
    \/ \E t \in Threads : ActiveGauge_drop_field(t)

SpecShares == InitShares /\ [][NextShares]_vars

\* Runs in which aggregates are registered while callers clone and drop their
\* handles, and the registry is rendered and at last dropped.
InitOwner == InitAtomicIdle /\ InitRegistry /\ InitWords /\ budget = MaxOwnerCalls

NextOwner ==
    \/ \E a \in Aggs : register_fn(a)
    \/ register_fn_return
    \/ \E n \in GaugeNames : RegisterAction_gauge(n)
    \/ helper_drop
    \/ render
    \/ registry_drop
    \/ \E a \in Aggs : clone_handle(a)
    \/ \E a \in Aggs : drop_handle(a)

SpecOwner == InitOwner /\ [][NextOwner]_vars

\* The values the counters and gauges hold when the runs that look at the
\* rendered text begin (callers modify their metrics before they register).
RenderValues == {0, 5, Modulus - 1}

\* Runs that register metrics with zero to several attributes and render.
InitRender ==
    /\ InitAtomicIdle
    /\ InitRegistry
    /\ \E v \in RenderValues : words = [r \in Refs |-> v]
    /\ budget = MaxRenderCalls

NextRender ==
    \/ \E a \in Aggs : register_fn(a)
    \/ register_fn_return
    \/ \E kv \in BaseAttrPairs : base_attr(kv[1], kv[2])
    \/ \E n \in CounterNames : RegisterAction_count(n)
    \/ \E n \in GaugeNames : RegisterAction_gauge(n)
    \/ \E kv \in AttrPairs : attr(kv[1], kv[2])
    \/ helper_drop
    \/ render

SpecRender == InitRender /\ [][NextRender]_vars

\* Runs of threads that increment one IntCounter while its value is loaded.
InitCounter ==
    /\ InitRegistry
    /\ InitWords
    /\ base_attributes = <<>>
    /\ budget = MaxCalls
    /\ kind = "IntCounter"
    /\ v0 \in {0, 1, Modulus - 1}
    /\ value = v0
    /\ done = [t \in Threads |-> 0]
    /\ sumInc = 0
    /\ sumDec = 0

NextCounter ==
    \/ \E t \in Threads : IntCounter_owned_inc(t)
    \/ \E t \in Threads : IntCounter_inc(t)
    \/ \E t \in Threads : IntCounter_shared_inc(t)
    \/ \E t \in Threads, n \in Amounts : IntCounter_inc_by(t, n)
    \/ \E t \in Threads, n \in Amounts : IntCounter_owned_inc_by(t, n)
    \/ \E t \in Threads, n \in Amounts : IntCounter_shared_inc_by(t, n)
    \/ AtomicU64_load

SpecCounter == InitCounter /\ [][NextCounter]_vars

\* The values a thread sets a gauge to.
SetValues == {0, Modulus - 1}

\* The list after `registry.register_fn(&m, |m, reg| { reg.count("a",
\* &m.counter).gauge("a", &m.gauge); })` for each aggregate of `owners` in turn,
\* starting from `list`; the registry has no base attributes.
RECURSIVE RegisteredAll(_, _)
RegisteredAll(list, owners) ==
    IF owners = <<>> THEN list
    ELSE LET a == owners[1]
             h1 == RegisterAction_metric(register_fn_action(<<>>), S_a,
                                         Ref(a, "IntCounter"), "IntCounter")
             h2 == RegisterHelper_metric(h1, S_a, Ref(a, "IntGauge"), "IntGauge")
         IN  RegisteredAll(RegisterHelper_drop(h2, list), Tail(owners))

\* The commit order of the same registrations.
RECURSIVE CommittedAll(_)
CommittedAll(owners) ==
    IF owners = <<>> THEN <<>>
    ELSE <<RegisteredMetric("IntCounter", S_a, Ref(owners[1], "IntCounter"), <<>>),
           RegisteredMetric("IntGauge", S_a, Ref(owners[1], "IntGauge"), <<>>)>>
            \o CommittedAll(Tail(owners))

\* Runs in which a registry to which an aggregate was handed once or twice is
\* rendered while threads that hold handles increment, decrement and set
\* those metrics.
InitConcurrent ==
    /\ InitAtomicIdle
    /\ \E owners \in {<<1>>, <<1, 1>>} :
          /\ metric_holders = owners
          /\ metrics = RegisteredAll(<<>>, owners)
          /\ g_log = CommittedAll(owners)
          /\ g_decls = 2 * Len(owners)
          /\ strong = [a \in Aggs |-> 1 + Cardinality({i \in DOMAIN owners : owners[i] = a})]
    /\ base_attributes = <<>>
    /\ ctx = <<>>
    /\ helper = None
    /\ cur = None
    /\ alive = [a \in Aggs |-> TRUE]
    /\ handles = [a \in Aggs |-> 1]
    /\ children = [a \in Aggs |-> 0]
    /\ guard = [t \in Threads |-> <<"none">>]
    /\ registry_live = TRUE
    /\ \E v \in RenderValues : words = [r \in Refs |-> v] /\ g_word = words
    /\ output = None
    /\ g_shown = <<>>
    /\ g_ctx = <<>>
    /\ g_back = None
    /\ g_open = None
    /\ g_last = None
    /\ calls = 0
    /\ budget = MaxLoads
    /\ g_loads = <<>>
    /\ rendering = None
    /\ g_vals = <<>>
    /\ g_held = [r \in Refs |-> {}]
    /\ g_snap = None
    /\ writes = 0
    /\ InitTimers
    /\ g_net = [r \in Refs |-> 0]
    /\ g_at = [r \in Refs |-> 0]

NextConcurrent ==
    \/ fmt_begin
    \/ fmt_step
    \/ fmt_end
    \/ \E r \in Refs, n \in Amounts : word_inc_by(r, n)
    \/ \E a \in Aggs, n \in Amounts : word_dec_by(a, n)
    \/ \E a \in Aggs, v \in SetValues : IntGauge_set(a, v)

SpecConcurrent == InitConcurrent /\ [][NextConcurrent]_vars

\* Runs of threads that construct duration timers on the counters and leave
\* their scopes while time passes.
InitTimer ==
    /\ InitAtomicIdle
    /\ InitRegistry
    /\ InitWords
    /\ base_attributes = <<>>
    /\ budget = MaxCalls

NextTimer ==
    \/ tick
    \/ \E t \in Threads, a \in Aggs, unit \in Units : DurationInc_new(t, a, unit)
    \/ \E t \in Threads, path \in {"return", "unwind"} : DurationInc_drop(t, path)
    \/ \E t \in Threads : DurationInc_drop_inc(t)

SpecTimer == InitTimer /\ [][NextTimer]_vars

\* Runs in which threads open and drop ActiveGauge guards on the gauges while
\* others set, increment and decrement the registered gauge.
InitGauge ==
    /\ InitConcurrent
    /\ metric_holders = <<1>>
    /\ words = [r \in Refs |-> 0]

NextGauge ==
    \/ \E t \in Threads, a \in Aggs : ActiveGauge_new_create(t, a)
    \/ \E t \in Threads : ActiveGauge_new_return(t)
    \/ \E t \in Threads : ActiveGauge_drop(t)
    \/ \E t \in Threads : ActiveGauge_drop_field(t)
    \/ \E r \in Refs, n \in Amounts : word_inc_by(r, n)
    \/ \E a \in Aggs, n \in Amounts : word_dec_by(a, n)
    \/ \E a \in Aggs, v \in SetValues : IntGauge_set(a, v)

SpecGauge == InitGauge /\ [][NextGauge]_vars

\* ------------------------------------------- what the claims speak about

\* The key render groups by.
KeyOf(m) == <<m.name, m.metric_type>>
Keys(list) == {KeyOf(list[i]) : i \in DOMAIN list}
CountKey(list, k) == Cardinality({i \in DOMAIN list : KeyOf(list[i]) = k})
Count(list, x) == Cardinality({i \in DOMAIN list : list[i] = x})
Range(list) == {list[i] : i \in DOMAIN list}

IsPrefix(p, str) == Len(p) <= Len(str) /\ SubSeq(str, 1, Len(p)) = p

RECURSIVE Lines(_)
\* The lines of a text, each without its "\n".
Lines(text) ==
    IF text = <<>> THEN <<>>
    ELSE LET ends == {i \in 1 .. Len(text) : text[i] = S_nl[1]}
         IN  IF ends = {} THEN <<text>>
             ELSE <<SubSeq(text, 1, SetMin(ends) - 1)>>
                     \o Lines(SubSeq(text, SetMin(ends) + 1, Len(text)))

HelpLine(k) == S_help \o k[1]
TypeLine(k) == S_type \o k[1] \o S_sp \o (IF k[2] = "IntCounter" THEN S_counter ELSE S_gauge)
\* A sample line of the metric named n: the name, then "{" or " ".
IsSampleOf(line, n) ==
    /\ IsPrefix(n, line)
    /\ Len(line) > Len(n)
    /\ line[Len(n) + 1] \in {S_lbrace[1], S_sp[1]}

RECURSIVE JoinSegs(_)
\* The segments joined with "_".
JoinSegs(segs) ==
    IF segs = <<>> THEN <<>>
    ELSE IF Len(segs) = 1 THEN segs[1]
    ELSE segs[1] \o S_us \o JoinSegs(Tail(segs))

\* The segments that are present among a list of Options.
Present(opts) ==
    LET some == SelectSeq(opts, IsSome)
    IN  [i \in DOMAIN some |-> Unwrap(some[i])]

\* The name a declaration of n gets under context prefix, group segment.
ExpectedName(prefix, seg, n) == JoinSegs(Present(<<prefix, seg, Some(n)>>))

\* No leading, trailing or doubled "_".
CleanName(name) ==
    /\ name # <<>>
    /\ name[1] # S_us[1]
    /\ name[Len(name)] # S_us[1]
    /\ \A i \in 1 .. Len(name) - 1 : ~(name[i] = S_us[1] /\ name[i + 1] = S_us[1])

\* ------------------------------------------------------------------ C1

AllDone == \A t \in Threads : done[t] = MaxOps

\* C1 (as stated): after all increment/decrement operations have completed,
\* the loaded value equals the initial value plus the sum of all increments
\* minus the sum of all decrements, as integers.
C1_NoLostUpdate_Exact ==
    AllDone => value = v0 + sumInc - sumDec

\* C1 (amended): after all increment/decrement operations have completed, the
\* loaded value equals the initial value plus the sum of all increments minus
\* the sum of all decrements, reduced modulo the word size (2^64 in the
\* program): no update is lost, and the arithmetic wraps.
C1_NoLostUpdate_Wrapping ==
    AllDone => value = (v0 + sumInc - sumDec) % Modulus

\* Two threads have both finished, with increments and decrements mixed.
C1_Witness ==
    /\ AllDone
    /\ kind = "IntGauge"
    /\ sumInc > 0
    /\ sumDec > 0


\* ------------------------------------------------------------------ C2

\* C2: whatever the order of the registrations and flushes, the rendered text
\* holds exactly one "# HELP" / "# TYPE" pair per distinct (name, kind) among
\* the registered metrics, each followed at once by all the sample lines of
\* that (name, kind); the number of pairs is the number of distinct keys,
\* which the order of registration does not change.
C2_OneBlockPerKey ==
    IsSome(output) =>
        LET L == Lines(Unwrap(output))
            K == Keys(g_shown)
            H == {i \in DOMAIN L : IsPrefix(S_help, L[i])}
            T == {i \in DOMAIN L : IsPrefix(S_type, L[i])}
        IN  /\ Cardinality(H) = Cardinality(K)
            /\ Cardinality(T) = Cardinality(K)
            /\ Len(L) = 2 * Cardinality(K) + Len(g_shown)
            /\ \A k \in K :
                 \E i \in H :
                    /\ L[i] = HelpLine(k)
                    /\ i + 1 \in T
                    /\ L[i + 1] = TypeLine(k)
                    /\ \A j \in 1 .. CountKey(g_shown, k) :
                          /\ i + 1 + j \in DOMAIN L
                          /\ IsSampleOf(L[i + 1 + j], k[1])

\* A render of three metrics that were committed with another key between
\* two metrics of one key.
C2_Witness ==
    /\ IsSome(output)
    /\ \E i, j, k \in DOMAIN g_shown :
          /\ i < j
          /\ j < k
          /\ KeyOf(g_shown[i]) = KeyOf(g_shown[k])
          /\ KeyOf(g_shown[j]) # KeyOf(g_shown[i])

\* ------------------------------------------------------------------ C3

\* The metrics the latest flushed helper must have committed: one per
\* declaration, each with the inherited attributes followed by all the
\* attributes added to the helper.
LastExpected ==
    LET h == Unwrap(g_last)
    IN  [k \in DOMAIN h.decls |->
            RegisteredMetric(h.decls[k].metric_type,
                             ExpectedName(h.prefix, h.seg, h.decls[k].name),
                             h.decls[k].value,
                             h.inherited \o h.added)]

\* C3: every metric declared in a helper is committed at scope exit with the
\* same attribute list, the inherited attributes followed by all the
\* attributes added to the helper, those added after the declaration too.
C3_AttrsStampedAtFlush ==
    IsSome(g_last) =>
        LET E == LastExpected
        IN  /\ Len(g_log) >= Len(E)
            /\ SubSeq(g_log, Len(g_log) - Len(E) + 1, Len(g_log)) = E
            /\ \A k \in DOMAIN E : Count(metrics, E[k]) >= Count(E, E[k])

\* A helper was flushed that inherited attributes, declared two metrics and
\* got an attribute after its first declaration.
C3_Witness ==
    /\ IsSome(g_last)
    /\ Len(Unwrap(g_last).decls) >= 2
    /\ Unwrap(g_last).inherited # <<>>
    /\ Unwrap(g_last).decls[1].seen < Len(Unwrap(g_last).added)

\* ------------------------------------------------------------------ C4

\* C4: the name of a metric declared as n in a helper is the "_"-join, in the
\* order context prefix, group segment, n, of the segments that are present;
\* when those segments are non-empty the name has no leading, trailing or
\* doubled "_".
C4_NameIsJoin ==
    IsSome(helper) =>
        LET h == Unwrap(helper)
            g == Unwrap(g_open)
        IN  /\ Len(h.registered) = Len(g.decls)
            /\ \A i \in DOMAIN h.registered :
                  /\ h.registered[i].name = ExpectedName(g.prefix, g.seg, g.decls[i].name)
                  /\ (\A x \in {g.prefix, g.seg} : x # Some(S_empty))
                        => CleanName(h.registered[i].name)

\* A context with a prefix opened a group with a segment, and a metric was
\* declared in it.
C4_Witness ==
    /\ IsSome(helper)
    /\ IsSome(Unwrap(g_open).prefix)
    /\ IsSome(Unwrap(g_open).seg)
    /\ Unwrap(g_open).seg # Some(S_empty)
    /\ Len(Unwrap(helper).registered) >= 1

\* ------------------------------------------------------------------ C5

\* C5 (as stated): name_prefix concatenates onto the existing prefix: a metric
\* declared under a context carries every prefix set along the context's
\* ancestry (on the context itself, or on the parent before the spawn), in
\* the order they were set, before the group segment and its own name.
\* Stated for prefixes that differ from each other, where "carries both" can
\* be read off the name.
C5_PrefixConcatenates ==
    (IsSome(helper) /\ Cardinality(Range(Unwrap(g_open).chain)) = Len(Unwrap(g_open).chain)) =>
        LET h == Unwrap(helper)
            g == Unwrap(g_open)
        IN  \A i \in DOMAIN h.registered :
                h.registered[i].name
                    = JoinSegs(g.chain \o Present(<<g.seg, Some(g.decls[i].name)>>))

\* ------------------------------------------------------------------ C6

\* C6: a child starts as a copy of its parent's prefix and attributes; while
\* the child lives, whatever is called on it, the parent keeps the prefix and
\* attributes it had at the spawn; once the child has finished, the parent
\* still has them, and a helper the parent then opens carries exactly them.
C6_ChildIsolated ==
    /\ \A i \in 2 .. Len(ctx) :
          /\ ctx[i - 1] = Unwrap(g_ctx[i].parent)
          /\ ~g_ctx[i].touched => ctx[i] = ctx[i - 1]
    /\ IsSome(g_back) =>
          LET was == Unwrap(g_back).state
          IN  /\ Top(ctx) = was
              /\ IsSome(helper) =>
                    /\ Unwrap(helper).attributes = was.base_attributes \o Unwrap(g_open).added
                    /\ \A i \in DOMAIN Unwrap(helper).registered :
                          Unwrap(helper).registered[i].name
                              = ExpectedName(was.name_prefix, Unwrap(g_open).seg,
                                             Unwrap(g_open).decls[i].name)

\* A child was narrowed and has finished, and its parent, which had a prefix
\* of its own, has declared a metric since.
C6_Witness ==
    /\ IsSome(g_back)
    /\ Unwrap(g_back).narrowed
    /\ IsSome(Unwrap(g_back).state.name_prefix)
    /\ IsSome(helper)
    /\ Len(Unwrap(helper).registered) >= 1


\* ------------------------------------------------------------------ C7

\* The guards that are open on aggregate a's gauge: constructed and not yet
\* dropped.
OpenGuards(a) == {t \in Threads : guard[t] = <<"open", a>>}

\* C7: a gauge that starts at 0 and is modified only through ActiveGauge
\* guards holds, at every instant, the number of guards that are open on it;
\* so it is back at its value from before a scope once that scope and the
\* scopes that overlapped it have exited.
C7_GaugeCountsOpenGuards ==
    \A a \in Aggs :
        /\ words[Ref(a, "IntGauge")] = Cardinality(OpenGuards(a))
        /\ OpenGuards(a) = {} => words[Ref(a, "IntGauge")] = 0

\* Two guards are open on one gauge at once.
C7_Witness ==
    \E a \in Aggs : Cardinality(OpenGuards(a)) >= 2

\* ------------------------------------------------------------------ C8

\* The ChildMetric values that live on aggregate a: the callers' and those
\* inside ActiveGauge guards.
LiveChildren(a) ==
    children[a] + Cardinality({t \in Threads : Len(guard[t]) = 2 /\ guard[t][2] = a})

\* C8: while a ChildMetric (original or clone) exists, its aggregate is not
\* deallocated: the strong count is at least the number of live ChildMetric
\* values.
C8_ChildKeepsOwnerAlive ==
    \A a \in Aggs :
        /\ strong[a] >= LiveChildren(a)
        /\ LiveChildren(a) >= 1 => alive[a]

\* The caller has dropped every handle of an aggregate that an original
\* ChildMetric and its clone still hold.
C8_Witness ==
    \E a \in Aggs :
        /\ handles[a] = 0
        /\ children[a] >= 2
        /\ alive[a]

\* ------------------------------------------------------------------ C9

\* C9: while the registry exists it holds a share of every aggregate it was
\* given, so the aggregate is allocated even when the callers have dropped
\* every handle, and every value reference in the metric list points into an
\* allocated aggregate.
C9_RegistryKeepsOwnerAlive ==
    registry_live =>
        /\ \A a \in Range(metric_holders) :
              /\ alive[a]
              /\ strong[a] >= Count(metric_holders, a)
        /\ \A i \in DOMAIN metrics :
              /\ metrics[i].value[1] \in Range(metric_holders)
              /\ alive[metrics[i].value[1]]

\* The callers have dropped every handle of a registered aggregate whose
\* metric is in the list, and the list was rendered.
C9_Witness ==
    /\ registry_live
    /\ IsSome(output)
    /\ g_shown = g_log
    /\ \E i \in DOMAIN metrics :
          /\ handles[metrics[i].value[1]] = 0
          /\ alive[metrics[i].value[1]]


\* ------------------------------------------------------------------ C10

\* One attribute as the exposition format writes it: k="v".
Pair(kv) == kv[1] \o <<61>> \o <<34>> \o kv[2] \o <<34>>

RECURSIVE JoinComma(_)
\* The attributes of a non-empty list, comma-separated, in list order.
JoinComma(attributes) ==
    IF Len(attributes) = 1 THEN Pair(attributes[1])
    ELSE Pair(attributes[1]) \o <<44>> \o JoinComma(Tail(attributes))

\* The sample line the format prescribes for a metric: no braces when it has
\* no attributes, else one "{", the pairs, one "}".  Then a space and the value.
ExpectedLine(m) ==
    m.name
        \o (IF m.attributes = <<>> THEN <<>>
            ELSE <<123>> \o JoinComma(m.attributes) \o <<125>>)
        \o <<32>> \o ToDec(words[m.value])

\* A line of the rendered text that is not a "#" comment.
IsSample(line) == line = <<>> \/ line[1] # 35

\* The sample lines of the last rendered text.
Samples == SelectSeq(Lines(Unwrap(output)), IsSample)

\* C10: the rendered text has one sample line per metric that was in the list,
\* and the line of a metric with n attributes (n = 0, 1, 2, 3) is `name x`
\* for n = 0 and `name{k1="v1",...,kn="vn"} x` otherwise.
C10_SampleLineFormat ==
    IsSome(output) =>
        /\ Len(Samples) = Len(g_shown)
        /\ \A i \in DOMAIN g_shown :
              Len(g_shown[i].attributes) <= 3
                  => \E j \in DOMAIN Samples : Samples[j] = ExpectedLine(g_shown[i])

\* Attribute counts of the metrics of the last rendered list.
ShownCounts == {Len(g_shown[i].attributes) : i \in DOMAIN g_shown}

\* A rendered list held a metric with three attributes and a non-zero value.
C10_Witness ==
    /\ IsSome(output)
    /\ 3 \in ShownCounts
    /\ \E i \in DOMAIN g_shown :
          /\ Len(g_shown[i].attributes) = 3
          /\ words[g_shown[i].value] >= 5


\* ------------------------------------------------------------------ C11

\* C11 (as stated): a counter is monotonically non-decreasing: each loaded
\* value is at least every value loaded before it.
C11_CounterMonotone ==
    \A i, j \in DOMAIN g_loads : i < j => g_loads[i] <= g_loads[j]

\* C11 (amended): the same, while the increments applied so far have not
\* carried the counter past the largest value of the word.
C11_CounterMonotoneBelowWrap ==
    v0 + sumInc < Modulus => C11_CounterMonotone

\* Two loads with an increment between them, and no overflow.
C11_Witness ==
    /\ Len(g_loads) = 2
    /\ g_loads[1] < g_loads[2]
    /\ v0 + sumInc < Modulus


\* ------------------------------------------------------------------ C12

\* C12: every declaration made in a helper is one entry of the list once the
\* helper is flushed, and an entry, once committed, stays in the list as it
\* was committed (kind, name, value reference, attributes): the list has as
\* many entries as declarations were made in flushed helpers, and it holds
\* exactly the entries committed so far, each as often as it was committed;
\* only the positions differ from the commit order.
C12_EntriesPermanent ==
    /\ Len(metrics) = g_decls
    /\ Len(g_log) = g_decls
    /\ \A e \in Range(g_log) \cup Range(metrics) : Count(metrics, e) = Count(g_log, e)

\* Three declarations were flushed by two helpers, and the re-sort moved a
\* later entry in front of an earlier one.
C12_Witness ==
    /\ g_decls >= 3
    /\ IsSome(g_last)
    /\ Len(Unwrap(g_last).decls) < g_decls
    /\ metrics # g_log


\* ------------------------------------------------------------------ C13

\* C13: rendering a registry on which no metric has been registered produces
\* the empty text: no HELP, TYPE or sample line.
C13_EmptyRendersEmpty ==
    (IsSome(output) /\ g_shown = <<>>) => Unwrap(output) = <<>>

\* A registry with base attributes was rendered before any metric was
\* committed.
C13_Witness ==
    /\ IsSome(output)
    /\ g_shown = <<>>
    /\ g_log = <<>>
    /\ base_attributes # <<>>


\* ------------------------------------------------------------------ C14

RECURSIVE LexLeq(_, _)
\* a is b or comes before b, as strings are compared.
LexLeq(a, b) ==
    \/ a = <<>>
    \/ /\ b # <<>>
       /\ \/ a[1] < b[1]
          \/ a[1] = b[1] /\ LexLeq(Tail(a), Tail(b))

\* The key (name, kind) of m1 is not greater than that of m2.
KeyLeq(m1, m2) ==
    \/ m1.name # m2.name /\ LexLeq(m1.name, m2.name)
    \/ m1.name = m2.name /\ (m1.metric_type = "IntGauge" => m2.metric_type = "IntGauge")

\* C14: the registry's list is in non-decreasing order of (name, kind), names
\* compared as strings and IntCounter before IntGauge, after every flush, and
\* so at every point at which render can be called.
C14_ListSorted ==
    \A i \in 1 .. Len(metrics) - 1 : KeyLeq(metrics[i], metrics[i + 1])

\* A helper without declarations was flushed last, onto a list that an
\* earlier flush had to reorder.
C14_Witness ==
    /\ IsSome(g_last)
    /\ Unwrap(g_last).decls = <<>>
    /\ Len(metrics) >= 2
    /\ metrics # g_log


\* ------------------------------------------------------------------ C15

\* The attribute chain of a helper with history h: the registry's base
\* attributes, the base_attr arguments along the context's ancestry, the attr
\* arguments on the helper, each in call order.
Chain(h) == base_attributes \o h.battrs \o h.added

\* The keys of an attribute list that occur in it more than once.
RepeatedKeys(attributes) ==
    {attributes[i][1] : i \in {i \in DOMAIN attributes :
        \E j \in DOMAIN attributes : j # i /\ attributes[j][1] = attributes[i][1]}}

\* C15: the attribute list of a helper, and the list stamped on every metric
\* it flushes, is the registry's base attributes, then the attributes added
\* with base_attr on the context and its ancestors before the group was
\* opened, then the attributes added with attr on the group, each in
\* insertion order, with every occurrence of a repeated key kept.
C15_AttributeChain ==
    /\ IsSome(helper) => Unwrap(helper).attributes = Chain(Unwrap(g_open))
    /\ IsSome(g_last) =>
          LET h == Unwrap(g_last)
              n == Len(h.decls)
          IN  /\ Len(g_log) >= n
              /\ \A k \in 1 .. n :
                    /\ g_log[Len(g_log) - n + k].attributes = Chain(h)
                    /\ Count(metrics, g_log[Len(g_log) - n + k]) >= 1

\* A metric was flushed with attributes from the registry, from base_attr and
\* from attr, one key being given more than once.
C15_Witness ==
    /\ IsSome(g_last)
    /\ Unwrap(g_last).decls # <<>>
    /\ base_attributes # <<>>
    /\ Unwrap(g_last).battrs # <<>>
    /\ Unwrap(g_last).added # <<>>
    /\ RepeatedKeys(g_log[Len(g_log)].attributes) # {}


\* ------------------------------------------------------------------ C18

\* C18: each registration starts from a context without prefix and with
\* exactly the registry's base attributes, whatever earlier registrations set
\* on their contexts: a root context that has not been narrowed is that fresh
\* context; a helper opened under a context whose own registration set no
\* prefix and no attribute declares names without a context prefix and
\* carries the registry's base attributes only; and the registry's base
\* attributes are those it was constructed with.
C18_FreshContext ==
    /\ base_attributes \in PromMetricRegistry_default_attributes
    /\ (Len(ctx) >= 1 /\ ~g_ctx[1].touched) =>
          /\ ctx[1].name_prefix = None
          /\ ctx[1].base_attributes = base_attributes
    /\ (IsSome(helper) /\ Unwrap(g_open).chain = <<>> /\ Unwrap(g_open).battrs = <<>>) =>
          LET h == Unwrap(helper)
              g == Unwrap(g_open)
          IN  /\ h.name_prefix = g.seg
              /\ h.attributes = base_attributes \o g.added
              /\ \A i \in DOMAIN h.registered :
                    h.registered[i].name = ExpectedName(None, g.seg, g.decls[i].name)

\* A second registration declares a metric on its untouched context after a
\* first one committed a metric under a prefix.
C18_Witness ==
    /\ Len(metric_holders) = 2
    /\ Len(ctx) = 1
    /\ ~g_ctx[1].touched
    /\ IsSome(helper)
    /\ Unwrap(helper).registered # <<>>
    /\ \E i \in DOMAIN g_log : \E p \in Prefixes : IsPrefix(p \o S_us, g_log[i].name)


\* ------------------------------------------------------------------ C19

\* The entries of a list that have key k, in list order.
WithKey(list, k) ==
    LET Has(m) == KeyOf(m) = k
    IN  SelectSeq(list, Has)

\* C19: the re-sort is stable: the metrics of one (name, kind) stand in the
\* list in the order in which they were committed (flush order, declaration
\* order within a helper), after any number of later flushes.
C19_StableSort ==
    \A k \in Keys(g_log) \cup Keys(metrics) : WithKey(metrics, k) = WithKey(g_log, k)

\* Two different metrics of one key were committed, and the metric committed
\* last, of another key, was sorted in front of them.
C19_Witness ==
    /\ Len(metrics) >= 3
    /\ metrics[1] = g_log[Len(g_log)]
    /\ KeyOf(metrics[1]) # KeyOf(metrics[2])
    /\ KeyOf(metrics[2]) = KeyOf(metrics[3])
    /\ metrics[2] # metrics[3]


\* ------------------------------------------------------------------ C16

\* C16: render is read-only, also beside running threads: while fmt runs and
\* after it, the registry's metric list, holder list and base attributes are
\* those of the moment it began; every word holds the value that the latest
\* write of a thread stored (fmt wrote none); and each value fmt loaded for a
\* metric is a value the metric's word held at some point since fmt began.
C16_RenderReadOnly ==
    /\ IsSome(g_snap) =>
          Unwrap(g_snap) = <<metrics, metric_holders, base_attributes>>
    /\ words = g_word
    /\ \A i \in DOMAIN g_vals : g_vals[i] \in g_held[metrics[i].value]
    /\ IsSome(rendering) => Len(g_vals) = Unwrap(rendering).i - 1

\* A render finished that printed one word twice with different values, both
\* written while it ran.
C16_Witness ==
    /\ IsSome(output)
    /\ ~IsSome(rendering)
    /\ \E i, j \in DOMAIN g_vals :
          /\ i < j
          /\ metrics[i].value = metrics[j].value
          /\ g_vals[i] # g_vals[j]
          /\ Cardinality(g_held[metrics[i].value]) >= 3


\* ------------------------------------------------------------------ C17

\* The timers on aggregate a's counter that are constructed and have not
\* added yet.
PendingTimers(a) == {t \in Threads : Len(timer[t]) >= 2 /\ timer[t][2] = a}

\* C17: a duration timer adds to its counter once, when its scope exits and
\* not before, whichever way the scope exits, and it adds the whole units
\* between its construction and its exit: at every moment the counter is the
\* sum of those amounts over the timers that have exited, timers that overlap
\* included, and a timer that still runs has added nothing.
C17_TimerAddsElapsedOnce ==
    \A a \in Aggs : words[Ref(a, "IntCounter")] = g_sum[a]

\* Two timers overlapped on one counter; one has exited and added a whole
\* unit after running for more than that, the other still runs.
C17_Witness ==
    \E a \in Aggs :
        /\ g_sum[a] >= 1
        /\ PendingTimers(a) # {}
        /\ \E t \in PendingTimers(a) : timer[t][1] = "running" /\ timer[t][4] < now
        /\ now % MsTicks # 0


\* ------------------------------------------------------------------ C20

\* C20: gauge arithmetic wraps modulo 2^64 and never saturates: every gauge
\* holds, modulo 2^64, the value last set on it, plus the amounts added and
\* minus the amounts subtracted since, plus one for every guard open now and
\* minus one for every guard that was open when the value was set.  So dec_by(n)
\* below n gives value - n mod 2^64, a following inc_by(n) restores the value,
\* and guards opened before a set(v) with v below their number wrap the gauge
\* below zero when they drop.
C20_GaugeWraps ==
    \A a \in Aggs :
        LET r == Ref(a, "IntGauge")
        IN  words[r] = (g_net[r] + Cardinality(OpenGuards(a)) - g_at[r]) % Modulus

\* A gauge was set to 0 while a guard was open on it; the guard has dropped
\* and the gauge holds the largest value.
C20_Witness ==
    \E a \in Aggs :
        /\ g_at[Ref(a, "IntGauge")] >= 1
        /\ g_net[Ref(a, "IntGauge")] = 0
        /\ OpenGuards(a) = {}
        /\ words[Ref(a, "IntGauge")] = Modulus - 1

====
